---------------------------- MODULE Spec2Model ----------------------------
(***************************************************************************)
(* A model of the rust-rocket client: the keyframe Track (src/track.rs)    *)
(* and the RocketClient message decoder and track registry                 *)
(* (src/client.rs).                                                        *)
(*                                                                         *)
(* f32 values are modelled as exact rationals <<num, den>> (den > 0, in    *)
(* lowest terms); every value the model uses is exactly representable.     *)
(* Bytes are integers 0..255, byte strings are sequences of bytes.         *)
(***************************************************************************)
EXTENDS Integers, Sequences, FiniteSets, TLC

VARIABLES
    state,   \* RocketClient.state : ClientState, [tag, n]
    cmd,     \* RocketClient.cmd   : Vec<u8>
    tracks,  \* RocketClient.tracks: Vec<Track>
    rx,      \* RocketClient.stream: bytes received by the socket, not yet read
    wire,    \* bytes of the tracker's current message not yet at the socket
    conn,    \* the connection: "open", "closed" (end of stream received),
             \* "reset"
    out,     \* RocketClient.stream: the bytes written to the connection
    pc,      \* position in poll_events: "idle" (not called), "polling" (at
             \* the call of poll_event), "incomplete" (at the match arm
             \* ReceiveResult::Incomplete), "panicked"
    msg,     \* history: the bytes read from the stream for the current message
    track,   \* a Track owned by the caller (Track::new)
    sent,    \* the number of messages the tracker has sent
    ret      \* what the last call returned

vars == <<state, cmd, tracks, rx, wire, conn, out, pc, msg, track, sent, ret>>

clientVars == <<state, cmd, tracks, rx, wire, conn, out, pc, msg, sent>>

---------------------------------------------------------------------------
(* Bounds of the model.                                                    *)

\* largest key row of the caller-owned Track
MaxRow == 3

\* the number of messages the tracker sends under Spec
MaxMsgs == 2

\* the number of messages the tracker sends under RegistrySpec
MaxEdits == 1

\* the number of bytes the application writes to the connection
MaxOut == 13

\* the number of bytes of RocketClient.cmd the model keeps; the Complete
\* state reads at most the first 14
CmdCap == 16

\* key rows of the caller-owned Track
KeyRows == 0..MaxRow

\* rows at which the caller-owned Track is evaluated, as rationals: every
\* half row from -1 to MaxRow + 1
EvalRows == {<<-1, 1>>, <<-1, 2>>} \cup
            {<<r, 1>> : r \in 0..(MaxRow + 1)} \cup
            {<<2 * r + 1, 2>> : r \in 0..MaxRow}

---------------------------------------------------------------------------
(* Exact arithmetic standing for f32.                                      *)

RECURSIVE GCD(_, _)
GCD(a, b) == IF b = 0 THEN a ELSE GCD(b, a % b)

Abs(x) == IF x < 0 THEN -x ELSE x

RNorm(n, d) ==
    LET s == IF d < 0 THEN -1 ELSE 1
        g == GCD(Abs(n), Abs(d))
    IN  <<(s * n) \div g, (s * d) \div g>>

RAdd(a, b) == RNorm(a[1] * b[2] + b[1] * a[2], a[2] * b[2])
RSub(a, b) == RNorm(a[1] * b[2] - b[1] * a[2], a[2] * b[2])
RMul(a, b) == RNorm(a[1] * b[1], a[2] * b[2])
RDiv(a, b) == RNorm(a[1] * b[2], a[2] * b[1])
RLt(a, b) == a[1] * b[2] < b[1] * a[2]
RLe(a, b) == a[1] * b[2] <= b[1] * a[2]
RInt(n) == <<n, 1>>
RFloor(a) == a[1] \div a[2]

\* `x as u32` for an f32 x that is already an integer: the cast saturates,
\* so a negative x gives 0 (rows stay far below u32::MAX in this model)
F32AsU32(n) == IF n < 0 THEN 0 ELSE n

---------------------------------------------------------------------------
(* crate::interpolation                                                    *)

Step == "Step"
Linear == "Linear"
Smooth == "Smooth"
Ramp == "Ramp"

\* Interpolation::from(u8): unknown discriminants map to Linear
InterpolationFrom(b) ==
    CASE b = 0 -> Step
      [] b = 1 -> Linear
      [] b = 2 -> Smooth
      [] b = 3 -> Ramp
      [] OTHER -> Linear

\* Interpolation::interpolate(t)
interpolate(kind, t) ==
    CASE kind = Step -> IF RLt(t, RInt(1)) THEN RInt(0) ELSE RInt(1)
      [] kind = Linear -> t
      [] kind = Smooth -> RMul(RMul(t, t), RSub(RInt(3), RMul(RInt(2), t)))
      [] kind = Ramp -> RMul(t, t)

---------------------------------------------------------------------------
(* src/track.rs                                                            *)

\* Key::new
Key_new(row, value, interp) ==
    [row |-> row, value |-> value, interpolation |-> interp]

\* Track::new
Track_new(name) == [name |-> name, keys |-> <<>>]

NoPos == 0

\* Iterator::position over the (1-based) indices S at which the closure is
\* true: the first of them, NoPos for None
Position(S) ==
    IF S = {} THEN NoPos ELSE CHOOSE i \in S : \A j \in S : i <= j

get_exact_position_never(keys, row) == NoPos

get_exact_position(keys, row) ==
    Position({i \in 1..Len(keys) : keys[i].row = row})

get_insert_position_le(keys, row) ==
    Position({i \in 1..Len(keys) : keys[i].row <= row})

get_insert_position(keys, row) ==
    Position({i \in 1..Len(keys) : keys[i].row >= row})

\* Vec::insert at 1-based index pos
VecInsert(s, pos, e) ==
    SubSeq(s, 1, pos - 1) \o <<e>> \o SubSeq(s, pos, Len(s))

\* Vec::remove at 1-based index pos
VecRemove(s, pos) ==
    SubSeq(s, 1, pos - 1) \o SubSeq(s, pos + 1, Len(s))

\* set_key: the line it prints, as <<text, 0-based position>>
set_key_log(keys, key) ==
    IF get_exact_position(keys, key.row) # NoPos
    THEN <<"Updating", get_exact_position(keys, key.row) - 1>>
    ELSE IF get_insert_position(keys, key.row) # NoPos
         THEN <<"inserting", get_insert_position(keys, key.row) - 1>>
         ELSE <<"pushing", Len(keys)>>

set_key(keys, key) ==
    IF get_exact_position(keys, key.row) # NoPos
    THEN [keys EXCEPT ![get_exact_position(keys, key.row)] = key]
    ELSE IF get_insert_position(keys, key.row) # NoPos
         THEN VecInsert(keys, get_insert_position(keys, key.row), key)
         ELSE Append(keys, key)

delete_key_at_insert_position(keys, row) ==
    IF get_insert_position(keys, row) # NoPos
    THEN VecRemove(keys, get_insert_position(keys, row))
    ELSE keys

delete_key(keys, row) ==
    IF get_exact_position(keys, row) # NoPos
    THEN VecRemove(keys, get_exact_position(keys, row))
    ELSE keys

\* get_value, line 77: row.floor() as u32
get_value_lower_row(row) == F32AsU32(RFloor(row))

\* get_value: which return statement is taken
get_value_path(keys, row) ==
    IF Len(keys) <= 0 THEN "empty"
    ELSE IF get_value_lower_row(row) <= keys[1].row THEN "first"
    ELSE IF get_value_lower_row(row) >= keys[Len(keys)].row THEN "last"
    ELSE "segment"

\* get_value, line 87: the (1-based) index of the key taken as `lower`
get_value_pos(keys, row) ==
    get_insert_position(keys, get_value_lower_row(row)) - 1

\* get_value, line 92
get_value_t(keys, row) ==
    LET lower == keys[get_value_pos(keys, row)]
        higher == keys[get_value_pos(keys, row) + 1]
    IN  RDiv(RSub(row, RInt(lower.row)),
             RSub(RInt(higher.row), RInt(lower.row)))

get_value_clamp_swapped(keys, row) ==
    IF Len(keys) <= 0 THEN RInt(0)
    ELSE IF get_value_lower_row(row) <= keys[1].row
         THEN keys[Len(keys)].value
    ELSE IF get_value_lower_row(row) >= keys[Len(keys)].row
         THEN keys[1].value
    ELSE RInt(0)

get_value(keys, row) ==
    IF Len(keys) <= 0 THEN RInt(0)
    ELSE IF get_value_lower_row(row) <= keys[1].row THEN keys[1].value
    ELSE IF get_value_lower_row(row) >= keys[Len(keys)].row
         THEN keys[Len(keys)].value
    ELSE LET lower == keys[get_value_pos(keys, row)]
             higher == keys[get_value_pos(keys, row) + 1]
             it == interpolate(lower.interpolation, get_value_t(keys, row))
         IN  RAdd(lower.value, RMul(RSub(higher.value, lower.value), it))

---------------------------------------------------------------------------
(* The caller-owned Track: the operations of src/track.rs called directly. *)

\* f32 key values of the caller-owned Track
KeyValues == {RInt(1), RInt(2)}

KeyInterpolations == {Step, Linear}

NoRet == [op |-> "none", kind |-> "none"]

TrackSetKey(key) ==
    /\ track' = [track EXCEPT !.keys = set_key(track.keys, key)]
    /\ ret' = [op |-> "set_key", kind |-> "Ok", arg |-> key,
               log |-> set_key_log(track.keys, key)]
    /\ UNCHANGED clientVars

TrackDeleteKey(row) ==
    /\ track' = [track EXCEPT !.keys = delete_key(track.keys, row)]
    /\ ret' = [op |-> "delete_key", kind |-> "Ok", arg |-> row,
               len_before |-> Len(track.keys)]
    /\ UNCHANGED clientVars

TrackGetValue(row) ==
    /\ ret' = [op |-> "get_value", kind |-> "Ok", arg |-> row,
               val |-> get_value(track.keys, row)]
    /\ UNCHANGED <<track, clientVars>>

---------------------------------------------------------------------------
(* src/client.rs                                                           *)

New == [tag |-> "New", n |-> 0]
Incomplete(n) == [tag |-> "Incomplete", n |-> n]
Complete == [tag |-> "Complete", n |-> 0]

\* WriteBytesExt::write_u32::<BigEndian>
BE32(x) ==
    <<(x \div 16777216) % 256, (x \div 65536) % 256, (x \div 256) % 256,
      x % 256>>

\* ReadBytesExt::read_u8 of a Cursor over b at (0-based) offset off
read_u8(b, off) == b[off + 1]

\* ReadBytesExt::read_u32::<BigEndian> of a Cursor over b at offset off
read_u32(b, off) ==
    b[off + 1] * 16777216 + b[off + 2] * 65536 + b[off + 3] * 256 + b[off + 4]

\* the f32 with the given IEEE 754 bit pattern, for the patterns that occur
F32FromBits(bits) ==
    CASE bits = 0 -> RInt(0)               \* 0x00000000 = 0.0
      [] bits = 1056964608 -> <<1, 2>>     \* 0x3F000000 = 0.5
      [] bits = 1065353216 -> RInt(1)      \* 0x3F800000 = 1.0
      [] bits = 1073741824 -> RInt(2)      \* 0x40000000 = 2.0

\* ReadBytesExt::read_f32::<BigEndian> of a Cursor over b at offset off
read_f32(b, off) == F32FromBits(read_u32(b, off))

Min(a, b) == IF a < b THEN a ELSE b

Take(s, n) == SubSeq(s, 1, Min(n, Len(s)))
Drop(s, n) == SubSeq(s, n + 1, Len(s))

Zeros(n) == [i \in 1..n |-> 0]

AfterOpcode_unknown_payload(op) ==
    CASE op = 0 -> Incomplete(4 + 4 + 4 + 1)
      [] op = 1 -> Incomplete(4 + 4)
      [] op = 3 -> Incomplete(4)
      [] op = 4 -> Incomplete(1)
      [] op = 5 -> Complete
      [] OTHER -> Incomplete(1)

\* poll_event, lines 225-232: the state entered on reading the opcode byte
AfterOpcode(op) ==
    CASE op = 0 -> Incomplete(4 + 4 + 4 + 1)
      [] op = 1 -> Incomplete(4 + 4)
      [] op = 3 -> Incomplete(4)
      [] op = 4 -> Incomplete(1)
      [] op = 5 -> Complete
      [] OTHER -> Complete

\* The messages of the tracker, as it writes them to the connection.
SetKeyMsg(t, row, bits, interp) ==
    <<0>> \o BE32(t) \o BE32(row) \o BE32(bits) \o <<interp>>
DeleteKeyMsg(t, row) == <<1>> \o BE32(t) \o BE32(row)
SetRowMsg(row) == <<3>> \o BE32(row)
PauseMsg(flag) == <<4, flag>>
SaveTracksMsg == <<5>>
UnknownMsg(op) == <<op>>

\* get_track_mut, lines 147-149: the GET_TRACK message; a name is the
\* sequence of its bytes
GetTrackMsg(name) == <<2>> \o BE32(Len(name)) \o name

\* the messages the tracker sends in this model
TrackerMsgs ==
    {SetKeyMsg(t, 1, 1065353216, 2) : t \in {0, 1}} \cup
    {DeleteKeyMsg(0, 1), SetRowMsg(1), PauseMsg(1), SaveTracksMsg,
     UnknownMsg(9)}

\* the track names the application asks for
Names == {<<97>>}

Init ==
    /\ state = New
    /\ cmd = <<>>
    /\ tracks = <<>>
    /\ rx = <<>>
    /\ wire = <<>>
    /\ conn = "open"
    /\ out = <<>>
    /\ pc = "idle"
    /\ msg = <<>>
    /\ track = Track_new(<<116>>)
    /\ sent = 0
    /\ ret = NoRet

\* what the next read of the stream reports
ReadOutcome ==
    CASE conn = "reset" -> "Err"
      [] conn # "reset" /\ rx # <<>> -> "Data"
      [] conn = "closed" /\ rx = <<>> -> "Eof"
      [] OTHER -> "WouldBlock"

PollRet(kind, val) == [op |-> "poll_events", kind |-> kind, val |-> val]

\* poll_events is called
PollEvents ==
    /\ pc = "idle"
    /\ pc' = "polling"
    /\ ret' = PollRet("Pending", <<>>)
    /\ UNCHANGED <<state, cmd, tracks, rx, wire, conn, out, msg, track, sent>>

\* poll_events, ReceiveResult::Incomplete => (): the loop calls poll_event
\* again
PollEventsAgain ==
    /\ pc = "incomplete"
    /\ pc' = "polling"
    /\ UNCHANGED <<state, cmd, tracks, rx, wire, conn, out, msg, track, sent, ret>>

\* poll_event in New, read_exact gives Ok: ReceiveResult::Incomplete
PollEventNewRead ==
    /\ pc = "polling"
    /\ state.tag = "New"
    /\ ReadOutcome = "Data"
    /\ cmd' = Take(cmd \o <<Head(rx)>>, CmdCap)
    /\ state' = AfterOpcode(cmd'[1])
    /\ rx' = Tail(rx)
    /\ msg' = msg \o <<Head(rx)>>
    /\ pc' = "incomplete"
    /\ UNCHANGED <<tracks, wire, conn, out, track, sent, ret>>

\* poll_event in New, read_exact gives WouldBlock: ReceiveResult::None, and
\* poll_events returns Ok(None)
PollEventNewWouldBlock ==
    /\ pc = "polling"
    /\ state.tag = "New"
    /\ ReadOutcome = "WouldBlock"
    /\ pc' = "idle"
    /\ ret' = PollRet("None", <<>>)
    /\ UNCHANGED <<state, cmd, tracks, rx, wire, conn, out, msg, track, sent>>

\* poll_event in New, read_exact gives another error (UnexpectedEof when
\* the tracker has closed): poll_events returns Err(IOError)
PollEventNewError ==
    /\ pc = "polling"
    /\ state.tag = "New"
    /\ ReadOutcome \in {"Err", "Eof"}
    /\ pc' = "idle"
    /\ ret' = PollRet("Err", "IOError")
    /\ UNCHANGED <<state, cmd, tracks, rx, wire, conn, out, msg, track, sent>>

\* poll_event in Incomplete(bytes), lines 242-243: bytes_read
BytesRead(bytes) ==
    IF ReadOutcome = "Data" THEN Min(bytes, Len(rx)) ELSE 0

\* poll_event in Incomplete(bytes), lines 242-243: buf after the read
BufAfterRead(bytes) ==
    Take(rx, BytesRead(bytes)) \o Zeros(bytes - BytesRead(bytes))

\* poll_event in Incomplete(bytes), read gives Ok(bytes_read), which is
\* Ok(0) when the tracker has closed: ReceiveResult::Incomplete
PollEventIncompleteRead ==
    /\ pc = "polling"
    /\ state.tag = "Incomplete"
    /\ ReadOutcome \in {"Data", "Eof"}
    /\ cmd' = Take(cmd \o BufAfterRead(state.n), CmdCap)
    /\ state' = IF state.n - BytesRead(state.n) > 0
                THEN Incomplete(state.n - BytesRead(state.n))
                ELSE Complete
    /\ rx' = Drop(rx, BytesRead(state.n))
    /\ msg' = msg \o Take(rx, BytesRead(state.n))
    /\ pc' = "incomplete"
    /\ UNCHANGED <<tracks, wire, conn, out, track, sent, ret>>

PollEventIncompleteWouldBlock_reset ==
    /\ pc = "polling"
    /\ state.tag = "Incomplete"
    /\ ReadOutcome = "WouldBlock"
    /\ pc' = "idle"
    /\ ret' = PollRet("None", <<>>)
    /\ cmd' = <<>>
    /\ state' = New
    /\ UNCHANGED <<tracks, rx, wire, conn, out, msg, track, sent>>

\* poll_event in Incomplete(bytes), read gives WouldBlock:
\* ReceiveResult::None, and poll_events returns Ok(None)
PollEventIncompleteWouldBlock ==
    /\ pc = "polling"
    /\ state.tag = "Incomplete"
    /\ ReadOutcome = "WouldBlock"
    /\ pc' = "idle"
    /\ ret' = PollRet("None", <<>>)
    /\ UNCHANGED <<state, cmd, tracks, rx, wire, conn, out, msg, track, sent>>

PollEventIncompleteError_swallowed ==
    /\ pc = "polling"
    /\ state.tag = "Incomplete"
    /\ ReadOutcome = "Err"
    /\ pc' = "idle"
    /\ ret' = PollRet("None", <<>>)
    /\ UNCHANGED <<state, cmd, tracks, rx, wire, conn, out, msg, track, sent>>

\* poll_event in Incomplete(bytes), read gives another error: poll_events
\* returns Err(IOError)
PollEventIncompleteError ==
    /\ pc = "polling"
    /\ state.tag = "Incomplete"
    /\ ReadOutcome = "Err"
    /\ pc' = "idle"
    /\ ret' = PollRet("Err", "IOError")
    /\ UNCHANGED <<state, cmd, tracks, rx, wire, conn, out, msg, track, sent>>

\* poll_event in Complete, lines 266-267 and 276-277: the index into
\* self.tracks is out of bounds
CompletePanics(trks, c) ==
    /\ read_u8(c, 0) \in {0, 1}
    /\ read_u32(c, 1) >= Len(trks)

\* poll_event in Complete, lines 265-281: self.tracks after the dispatch
CompleteTracks(trks, c) ==
    CASE read_u8(c, 0) = 0 ->
            [trks EXCEPT ![read_u32(c, 1) + 1].keys =
                set_key(@, Key_new(read_u32(c, 5), read_f32(c, 9),
                                   InterpolationFrom(read_u8(c, 13))))]
      [] read_u8(c, 0) = 1 ->
            [trks EXCEPT ![read_u32(c, 1) + 1].keys =
                delete_key(@, read_u32(c, 5))]
      [] OTHER -> trks

CompleteResult_no_save(c) ==
    CASE read_u8(c, 0) = 3 ->
            PollRet("Some", [event |-> "SetRow", row |-> read_u32(c, 1)])
      [] read_u8(c, 0) = 4 ->
            PollRet("Some", [event |-> "Pause", flag |-> read_u8(c, 1) = 1])
      [] OTHER -> PollRet("None", <<>>)

\* poll_event in Complete, lines 260-294: result
CompleteResult(c) ==
    CASE read_u8(c, 0) = 3 ->
            PollRet("Some", [event |-> "SetRow", row |-> read_u32(c, 1)])
      [] read_u8(c, 0) = 4 ->
            PollRet("Some", [event |-> "Pause", flag |-> read_u8(c, 1) = 1])
      [] read_u8(c, 0) = 5 -> PollRet("Some", [event |-> "SaveTracks"])
      [] OTHER -> PollRet("None", <<>>)

PollEventComplete_keeps_state ==
    /\ pc = "polling"
    /\ state.tag = "Complete"
    /\ ~CompletePanics(tracks, cmd)
    /\ tracks' = CompleteTracks(tracks, cmd)
    /\ msg' = <<>>
    /\ pc' = "idle"
    /\ ret' = CompleteResult(cmd)
    /\ UNCHANGED <<state, cmd, rx, wire, conn, out, track, sent>>

\* poll_event in Complete: the command is dispatched, and poll_events
\* returns the result, Ok(None) or Ok(Some(event))
PollEventComplete ==
    /\ pc = "polling"
    /\ state.tag = "Complete"
    /\ ~CompletePanics(tracks, cmd)
    /\ tracks' = CompleteTracks(tracks, cmd)
    /\ cmd' = <<>>
    /\ state' = New
    /\ msg' = <<>>
    /\ pc' = "idle"
    /\ ret' = CompleteResult(cmd)
    /\ UNCHANGED <<rx, wire, conn, out, track, sent>>

\* poll_event in Complete: indexing self.tracks panics
PollEventCompletePanic ==
    /\ pc = "polling"
    /\ state.tag = "Complete"
    /\ CompletePanics(tracks, cmd)
    /\ pc' = "panicked"
    /\ ret' = PollRet("Panic", "index out of bounds")
    /\ UNCHANGED <<state, cmd, tracks, rx, wire, conn, out, msg, track, sent>>

find_track_never(trks, name) == NoPos

\* get_track_mut, lines 138-142: the (1-based) index of the first track with
\* the name, NoPos for None
find_track(trks, name) ==
    Position({i \in 1..Len(trks) : trks[i].name = name})

GetTrackMut_push_before_write(name, w) ==
    /\ pc = "idle"
    /\ w \in 0..Len(GetTrackMsg(name))
    /\ conn = "reset" => w = 0
    /\ IF find_track(tracks, name) # NoPos
       THEN /\ ret' = [op |-> "get_track_mut", kind |-> "Ok", arg |-> name,
                       val |-> find_track(tracks, name) - 1]
            /\ UNCHANGED <<tracks, out, conn>>
       ELSE /\ Len(out) + w <= MaxOut
            /\ out' = out \o Take(GetTrackMsg(name), w)
            /\ tracks' = Append(tracks, Track_new(name))
            /\ IF w = Len(GetTrackMsg(name))
               THEN /\ ret' = [op |-> "get_track_mut", kind |-> "Ok",
                               arg |-> name, val |-> Len(tracks)]
                    /\ conn' = conn
               ELSE /\ ret' = [op |-> "get_track_mut", kind |-> "Err",
                               arg |-> name, val |-> "IOError"]
                    /\ conn' = "reset"
    /\ UNCHANGED <<state, cmd, rx, wire, pc, msg, track, sent>>

\* get_track_mut(name); write_all puts w bytes of the message on the
\* connection: all of them when it succeeds, fewer when the connection
\* breaks under it
GetTrackMut(name, w) ==
    /\ pc = "idle"
    /\ w \in 0..Len(GetTrackMsg(name))
    /\ conn = "reset" => w = 0
    /\ IF find_track(tracks, name) # NoPos
       THEN /\ ret' = [op |-> "get_track_mut", kind |-> "Ok", arg |-> name,
                       val |-> find_track(tracks, name) - 1]
            /\ UNCHANGED <<tracks, out, conn>>
       ELSE /\ Len(out) + w <= MaxOut
            /\ out' = out \o Take(GetTrackMsg(name), w)
            /\ IF w = Len(GetTrackMsg(name))
               THEN /\ tracks' = Append(tracks, Track_new(name))
                    /\ ret' = [op |-> "get_track_mut", kind |-> "Ok",
                               arg |-> name, val |-> Len(tracks)]
                    /\ conn' = conn
               ELSE /\ tracks' = tracks
                    /\ ret' = [op |-> "get_track_mut", kind |-> "Err",
                               arg |-> name, val |-> "IOError"]
                    /\ conn' = "reset"
    /\ UNCHANGED <<state, cmd, rx, wire, pc, msg, track, sent>>

\* write_all on a connection that takes every byte unless it is reset
WriteAll(buf) == IF conn = "reset" THEN 0 ELSE Len(buf)

---------------------------------------------------------------------------
(* The tracker and the connection.                                         *)

TrackerSend(m) ==
    /\ pc # "panicked"
    /\ conn = "open"
    /\ wire = <<>>
    /\ wire' = m
    /\ sent' = sent + 1
    /\ UNCHANGED <<state, cmd, tracks, rx, conn, out, pc, msg, track, ret>>

\* k more bytes reach the socket
Deliver(k) ==
    /\ pc # "panicked"
    /\ conn # "reset"
    /\ k \in 1..Len(wire)
    /\ rx' = rx \o Take(wire, k)
    /\ wire' = Drop(wire, k)
    /\ UNCHANGED <<state, cmd, tracks, conn, out, pc, msg, track, sent, ret>>

\* the tracker closes the connection, possibly in the middle of a message:
\* the bytes it has not put on the connection never arrive
TrackerClose ==
    /\ pc # "panicked"
    /\ conn = "open"
    /\ conn' = "closed"
    /\ wire' = <<>>
    /\ UNCHANGED <<state, cmd, tracks, rx, out, pc, msg, track, sent, ret>>

\* the connection breaks
ConnReset ==
    /\ pc # "panicked"
    /\ conn \in {"open", "closed"}
    /\ conn' = "reset"
    /\ UNCHANGED <<state, cmd, tracks, rx, wire, out, pc, msg, track, sent, ret>>

PollStep ==
    \/ PollEventsAgain
    \/ PollEventNewRead
    \/ PollEventNewWouldBlock
    \/ PollEventNewError
    \/ PollEventIncompleteRead
    \/ PollEventIncompleteWouldBlock
    \/ PollEventIncompleteError
    \/ PollEventComplete
    \/ PollEventCompletePanic

Next ==
    \/ PollEvents
    \/ PollStep
    \/ \E name \in Names : GetTrackMut(name, WriteAll(GetTrackMsg(name)))
    \/ \E m \in TrackerMsgs : sent < MaxMsgs /\ TrackerSend(m)
    \/ \E k \in 1..Len(wire) : Deliver(k)
    \/ TrackerClose
    \/ ConnReset

Spec == Init /\ [][Next]_vars

FairSpec == Spec /\ WF_vars(PollStep)

SetRow_buffer_in_cmd(row, w) ==
    /\ pc = "idle"
    /\ w \in 0..Len(SetRowMsg(row))
    /\ conn = "reset" => w = 0
    /\ Len(out) + w <= MaxOut
    /\ cmd' = <<3>> \o BE32(row)
    /\ out' = out \o Take(cmd', w)
    /\ conn' = IF w = Len(SetRowMsg(row)) THEN conn ELSE "reset"
    /\ ret' = [op |-> "set_row",
               kind |-> IF w = Len(SetRowMsg(row)) THEN "Ok" ELSE "Err",
               arg |-> row,
               val |-> IF w = Len(SetRowMsg(row)) THEN <<>> ELSE "IOError"]
    /\ UNCHANGED <<state, tracks, rx, wire, pc, msg, track, sent>>

\* set_row(row); write_all puts w bytes of the message on the connection
SetRow(row, w) ==
    /\ pc = "idle"
    /\ w \in 0..Len(SetRowMsg(row))
    /\ conn = "reset" => w = 0
    /\ Len(out) + w <= MaxOut
    /\ out' = out \o Take(<<3>> \o BE32(row), w)
    /\ conn' = IF w = Len(SetRowMsg(row)) THEN conn ELSE "reset"
    /\ ret' = [op |-> "set_row",
               kind |-> IF w = Len(SetRowMsg(row)) THEN "Ok" ELSE "Err",
               arg |-> row,
               val |-> IF w = Len(SetRowMsg(row)) THEN <<>> ELSE "IOError"]
    /\ UNCHANGED <<state, cmd, tracks, rx, wire, pc, msg, track, sent>>

\* get_track(name): the first track with the name, as an Option (a sequence
\* of at most one track)
GetTrack(name) ==
    /\ pc = "idle"
    /\ ret' = [op |-> "get_track", kind |-> "Ok", arg |-> name,
               val |-> IF find_track(tracks, name) # NoPos
                       THEN <<tracks[find_track(tracks, name)]>>
                       ELSE <<>>]
    /\ UNCHANGED <<state, cmd, tracks, rx, wire, conn, out, pc, msg, track, sent>>

\* save_tracks(): a clone of the tracks
SaveTracks ==
    /\ pc = "idle"
    /\ ret' = [op |-> "save_tracks", kind |-> "Ok", val |-> tracks]
    /\ UNCHANGED <<state, cmd, tracks, rx, wire, conn, out, pc, msg, track, sent>>

\* the track names the application asks for under RegistrySpec
RegistryNames == {<<97>>, <<98>>}

\* the messages the tracker sends under RegistrySpec
RegistryMsgs == {SetKeyMsg(t, 1, 1065353216, 2) : t \in {0, 1}}

\* The registry: tracks are requested by two names and rows are set, the
\* connection may break after any number of bytes of a write, and the
\* tracker edits the tracks.
RegistryNext ==
    \/ \E name \in RegistryNames :
          \E w \in 0..Len(GetTrackMsg(name)) : GetTrackMut(name, w)
    \/ \E w \in 0..Len(SetRowMsg(1)) : SetRow(1, w)
    \/ PollEvents
    \/ PollStep
    \/ \E m \in RegistryMsgs : sent < MaxEdits /\ TrackerSend(m)
    \/ \E k \in {1, Len(wire)} : Deliver(k)
    \/ ConnReset

RegistrySpec == Init /\ [][RegistryNext]_vars

\* The calls other than poll_events, made between polls and in the middle of
\* a message: a track is requested, the row is set, tracks are looked up and
\* cloned, while the tracker edits the track and writes may fail.
OutboundNext ==
    \/ \E name \in Names :
          \E w \in {0, Len(GetTrackMsg(name))} : GetTrackMut(name, w)
    \/ \E w \in 0..Len(SetRowMsg(1)) : SetRow(1, w)
    \/ \E name \in RegistryNames : GetTrack(name)
    \/ SaveTracks
    \/ PollEvents
    \/ PollStep
    \/ \E m \in RegistryMsgs : sent < MaxEdits /\ TrackerSend(m)
    \/ \E k \in {1, Len(wire)} : Deliver(k)
    \/ ConnReset

OutboundSpec == Init /\ [][OutboundNext]_vars

TrackNext ==
    \/ \E r \in KeyRows, v \in KeyValues, i \in KeyInterpolations :
          TrackSetKey(Key_new(r, v, i))
    \/ \E r \in KeyRows : TrackDeleteKey(r)
    \/ \E r \in EvalRows : TrackGetValue(r)

TrackSpec == Init /\ [][TrackNext]_vars

---------------------------------------------------------------------------
(* Properties of the Track, checked under TrackSpec.                       *)

SortedStrict(keys) ==
    \A i \in 1..(Len(keys) - 1) : keys[i].row < keys[i + 1].row

\* C5: after any sequence of set_key and delete_key calls the keys of a
\* Track are sorted strictly ascending by row, so no two keys share a row.
C5_KeysSortedStrict == SortedStrict(track.keys)

\* a key was set between two existing keys
C5_Witness ==
    /\ ret.op = "set_key"
    /\ ret.log = <<"inserting", 1>>
    /\ Len(track.keys) >= 3

\* C6: set_key at the row of an existing key replaces that key in its slot:
\* the number of keys and every other key are unchanged.
C6_ReplaceInPlace ==
    [][(/\ ret'.op = "set_key"
        /\ \E p \in 1..Len(track.keys) : track.keys[p].row = ret'.arg.row)
       => /\ Len(track'.keys) = Len(track.keys)
          /\ \A q \in 1..Len(track.keys) :
                track'.keys[q] = IF track.keys[q].row = ret'.arg.row
                                 THEN ret'.arg
                                 ELSE track.keys[q]]_vars

\* the middle key of three was replaced by a key with another value
C6_Witness ==
    /\ ret.op = "set_key"
    /\ ret.log = <<"Updating", 1>>
    /\ Len(track.keys) = 3
    /\ track.keys[2] = ret.arg

\* C7: get_value clamps at the ends: 0.0 for a track without keys, the first
\* key's value at or before the first key, the last key's value at or after
\* the last key.
C7_ClampAtEnds ==
    ret.op = "get_value" =>
        LET keys == track.keys
            n == Len(keys)
        IN  /\ n = 0 => ret.val = RInt(0)
            /\ (n > 0 /\ RLe(ret.arg, RInt(keys[1].row)))
                  => ret.val = keys[1].value
            /\ (n > 0 /\ RLe(RInt(keys[n].row), ret.arg))
                  => ret.val = keys[n].value

\* evaluated beyond the last of several keys with different values
C7_Witness ==
    /\ ret.op = "get_value"
    /\ Len(track.keys) >= 2
    /\ track.keys[1].value # track.keys[Len(track.keys)].value
    /\ RLt(RInt(track.keys[Len(track.keys)].row), ret.arg)
    /\ ret.val = track.keys[Len(track.keys)].value

\* C8: for a row strictly between the first and the last key, get_value
\* interpolates over the adjacent keys (lower, higher) with
\* lower.row <= floor(row) < higher.row, and t lies in [0, 1).
C8_BracketingPair ==
    (/\ ret.op = "get_value"
     /\ Len(track.keys) >= 2
     /\ RLt(RInt(track.keys[1].row), ret.arg)
     /\ RLt(ret.arg, RInt(track.keys[Len(track.keys)].row)))
    => /\ get_value_path(track.keys, ret.arg) = "segment"
       /\ LET p == get_value_pos(track.keys, ret.arg)
              t == get_value_t(track.keys, ret.arg)
          IN  /\ track.keys[p].row <= RFloor(ret.arg)
              /\ RFloor(ret.arg) < track.keys[p + 1].row
              /\ RLe(RInt(0), t)
              /\ RLt(t, RInt(1))

---------------------------------------------------------------------------
(* Properties of the decoder, checked under Spec and FairSpec.             *)

\* the step is taken by the client, not by the tracker or the connection
ClientStep == UNCHANGED <<rx, wire, conn, sent>>

\* the fields poll_event reads from a complete message c
DecodedCommand(c) ==
    CASE c[1] = 0 -> [op |-> 0, track |-> read_u32(c, 1),
                      row |-> read_u32(c, 5), value |-> read_f32(c, 9),
                      interpolation |-> InterpolationFrom(read_u8(c, 13))]
      [] c[1] = 1 -> [op |-> 1, track |-> read_u32(c, 1),
                      row |-> read_u32(c, 5)]
      [] c[1] = 3 -> [op |-> 3, row |-> read_u32(c, 1)]
      [] c[1] = 4 -> [op |-> 4, flag |-> read_u8(c, 1) = 1]
      [] OTHER -> [op |-> c[1]]

\* C1: however the bytes of a message are split over reads, the command
\* decoded from the buffer is the one decoded from the bytes of the message
\* delivered in a single read, with the same effect on the tracks and the
\* same result.
C1_FragmentationInvariant ==
    state.tag = "Complete" =>
        /\ DecodedCommand(cmd) = DecodedCommand(msg)
        /\ CompletePanics(tracks, cmd) = CompletePanics(tracks, msg)
        /\ ~CompletePanics(tracks, msg) =>
              /\ CompleteTracks(tracks, cmd) = CompleteTracks(tracks, msg)
              /\ CompleteResult(cmd) = CompleteResult(msg)

\* C2: poll_events returns None only when the stream has no data available.
C2_NoneOnlyWhenDrained ==
    [][(pc = "polling" /\ pc' = "idle" /\ ret'.kind = "None") => rx = <<>>]_vars

\* C3: every call of poll_events ends, whatever the connection does.
C3_PollTerminates ==
    (pc \in {"polling", "incomplete"}) ~> (pc \notin {"polling", "incomplete"})

\* C4: a read that reports WouldBlock, in New or in Incomplete(n), leaves
\* the state, the buffer and the tracks unchanged, and poll_events returns
\* None.
C4_WouldBlockFrame ==
    [][(/\ pc = "polling"
        /\ state.tag \in {"New", "Incomplete"}
        /\ ReadOutcome = "WouldBlock"
        /\ ClientStep)
       => /\ UNCHANGED <<state, cmd, tracks, msg>>
          /\ pc' = "idle"
          /\ ret' = PollRet("None", <<>>)]_vars

\* poll_events has returned None in the middle of a message
C4_Witness ==
    /\ pc = "idle"
    /\ ret = PollRet("None", <<>>)
    /\ state.tag = "Incomplete"
    /\ Len(msg) > 1
    /\ tracks # <<>>

\* C9: a complete SetKey or DeleteKey whose track index is not below the
\* number of tracks makes poll_events return an error, and changes no
\* track.
C9_BadIndexIsError ==
    [][(/\ pc = "polling"
        /\ state.tag = "Complete"
        /\ cmd[1] \in {0, 1}
        /\ read_u32(cmd, 1) >= Len(tracks)
        /\ ClientStep)
       => /\ pc' = "idle"
          /\ ret'.kind = "Err"
          /\ tracks' = tracks]_vars

---------------------------------------------------------------------------
(* Properties of the registry, checked under RegistrySpec.                 *)

\* C10: get_track_mut for a name that has a track returns that track's
\* index, adds no track and writes nothing; for a new name it appends one
\* track and writes one GET_TRACK message (2, big-endian u32 length, name).
\* No two tracks share a name and no track's index changes, so two requests
\* for a name give the same index, one track and one message.
C10_RequestTrackOnce ==
    /\ [][(/\ pc = "idle"
           /\ ClientStep
           /\ ret'.op = "get_track_mut"
           /\ ret'.kind = "Ok")
          => IF \E i \in 1..Len(tracks) : tracks[i].name = ret'.arg
             THEN /\ tracks' = tracks
                  /\ out' = out
                  /\ tracks[ret'.val + 1].name = ret'.arg
             ELSE /\ tracks' = Append(tracks, [name |-> ret'.arg, keys |-> <<>>])
                  /\ out' = out \o <<2, 0, 0, 0, Len(ret'.arg)>> \o ret'.arg
                  /\ ret'.val = Len(tracks)]_vars
    /\ [](\A i, j \in 1..Len(tracks) :
             tracks[i].name = tracks[j].name => i = j)
    /\ [][\A i \in 1..Len(tracks) :
             Len(tracks') >= i /\ tracks'[i].name = tracks[i].name]_vars

\* the first of two tracks, which has a key, was requested again
C10_Witness ==
    /\ ret.op = "get_track_mut"
    /\ ret.kind = "Ok"
    /\ ret.val = 0
    /\ Len(tracks) = 2
    /\ tracks[1].name = ret.arg
    /\ tracks[1].keys # <<>>
    /\ out = <<2, 0, 0, 0, 1>> \o tracks[1].name \o
             <<2, 0, 0, 0, 1>> \o tracks[2].name

\* the opcodes with an entry in the table of messages
KnownOpcodes == {0, 1, 3, 4, 5}

\* the step is the dispatch of the complete message in cmd
DispatchStep ==
    /\ pc = "polling"
    /\ state.tag = "Complete"
    /\ ClientStep

\* C11: a byte with an unknown opcode is a whole message: the decoder is
\* Complete with that byte alone, its dispatch returns None without an error,
\* changes no track, reads no further byte and leaves New with an empty
\* buffer, and the next byte read is taken as an opcode.
C11_UnknownOpcodeSkipped ==
    /\ []((state.tag # "New" /\ msg[1] \notin KnownOpcodes)
             => /\ state.tag = "Complete"
                /\ cmd = msg
                /\ Len(msg) = 1)
    /\ [][(DispatchStep /\ msg[1] \notin KnownOpcodes)
          => /\ pc' = "idle"
             /\ ret' = PollRet("None", <<>>)
             /\ UNCHANGED <<tracks, rx>>
             /\ state' = New
             /\ cmd' = <<>>]_vars
    /\ [][(pc = "polling" /\ state.tag = "New" /\ wire' = wire /\ rx' # rx)
          => /\ rx' = Tail(rx)
             /\ cmd' = <<Head(rx)>>
             /\ Head(rx) = 0 => state' = Incomplete(13)
             /\ Head(rx) = 1 => state' = Incomplete(8)
             /\ Head(rx) = 3 => state' = Incomplete(4)
             /\ Head(rx) = 4 => state' = Incomplete(1)
             /\ Head(rx) \notin {0, 1, 3, 4} => state' = Complete]_vars

\* an unknown opcode has been read, and the next message waits behind it
C11_Witness ==
    /\ state.tag = "Complete"
    /\ cmd[1] \notin KnownOpcodes
    /\ rx # <<>>
    /\ tracks # <<>>

\* C12: opcode 5 alone completes a message: the call of poll_events that
\* reads it returns Event::SaveTracks without reading another byte, and
\* leaves New with an empty buffer.
C12_SaveTracksImmediate ==
    /\ []((state.tag # "New" /\ msg[1] = 5)
             => /\ state.tag = "Complete"
                /\ cmd = <<5>>
                /\ pc \in {"polling", "incomplete"})
    /\ [][(DispatchStep /\ msg[1] = 5)
          => /\ pc' = "idle"
             /\ ret' = PollRet("Some", [event |-> "SaveTracks"])
             /\ UNCHANGED <<tracks, rx>>
             /\ state' = New
             /\ cmd' = <<>>]_vars

\* SaveTracks was returned with nothing else on the connection
C12_Witness ==
    /\ pc = "idle"
    /\ ret = PollRet("Some", [event |-> "SaveTracks"])
    /\ state = New
    /\ cmd = <<>>
    /\ rx = <<>>
    /\ wire = <<>>
    /\ sent = 1

\* the fixed payload length of a message with opcode op
PayloadLen(op) ==
    CASE op = 0 -> 13
      [] op = 1 -> 8
      [] op = 3 -> 4
      [] op = 4 -> 1
      [] OTHER -> 0

\* C13: in Complete cmd holds exactly one message, the bytes read from the
\* stream for it, of length 1 + the payload length of its opcode; in
\* Incomplete(n) the length of cmd plus n is that total.
C13_BufferIsOneMessage ==
    /\ state.tag = "Complete"
          => /\ Len(cmd) = 1 + PayloadLen(cmd[1])
             /\ cmd = msg
    /\ state.tag = "Incomplete"
          => Len(cmd) + state.n = 1 + PayloadLen(cmd[1])

\* the next read of the stream fails with an error other than WouldBlock:
\* read_exact in New fails also at the end of the stream
ReadFails ==
    \/ ReadOutcome = "Err"
    \/ state.tag = "New" /\ ReadOutcome = "Eof"

\* C15: when the read of poll_event fails with an error other than
\* WouldBlock, in New or in Incomplete(n), poll_events returns
\* Err(Error::IOError), and state, cmd and the tracks are as before the read.
C15_ReadErrorSurfaced ==
    [][(/\ pc = "polling"
        /\ state.tag \in {"New", "Incomplete"}
        /\ ReadFails
        /\ pc' # pc)
       => /\ pc' = "idle"
          /\ ret' = PollRet("Err", "IOError")
          /\ UNCHANGED <<state, cmd, tracks>>]_vars

\* a read failed in the middle of a message, with a track in the registry
C15_Witness ==
    /\ pc = "idle"
    /\ ret = PollRet("Err", "IOError")
    /\ state.tag = "Incomplete"
    /\ Len(cmd) > 1
    /\ tracks # <<>>

\* a read of the opcode failed
C15_WitnessNew ==
    /\ pc = "idle"
    /\ ret = PollRet("Err", "IOError")
    /\ state = New
    /\ conn = "reset"

\* C19: when poll_events returns without an error the decoder is New with
\* an empty cmd, or Incomplete(n) with 1 <= n <= 13 and the result None; it
\* is never Complete between two calls of poll_events.
C19_StateAtPollReturn ==
    /\ [][(pc # "idle" /\ pc' = "idle" /\ ret'.kind # "Err")
          => \/ state' = New /\ cmd' = <<>>
             \/ /\ state'.tag = "Incomplete"
                /\ state'.n \in 1..13
                /\ ret' = PollRet("None", <<>>)]_vars
    /\ [](pc = "idle" => state.tag # "Complete")

\* poll_events has returned None in the middle of a payload, with the rest
\* of the message still to come
C19_Witness ==
    /\ pc = "idle"
    /\ ret = PollRet("None", <<>>)
    /\ state.tag = "Incomplete"
    /\ state.n < 13
    /\ rx = <<>>
    /\ wire # <<>>

\* C18: messages are dispatched in the order of their bytes on the stream,
\* each exactly once: the command dispatched is the next whole message read
\* from the stream, its edit is applied to the track it addresses and to no
\* other, and its event is the one poll_events returns.
C18_DispatchInStreamOrder ==
    [][(/\ pc = "polling"
        /\ state.tag = "Complete"
        /\ pc' # pc
        /\ ~CompletePanics(tracks, msg))
       => /\ pc' = "idle"
          /\ msg \in TrackerMsgs
          /\ msg' = <<>>
          /\ Len(tracks') = Len(tracks)
          /\ \A i \in 1..Len(tracks) :
                tracks'[i] = IF msg[1] \in {0, 1} /\ read_u32(msg, 1) + 1 = i
                             THEN CompleteTracks(tracks, msg)[i]
                             ELSE tracks[i]
          /\ ret' = CompleteResult(msg)]_vars

\* the names of the GET_TRACK messages written whole to the connection, in
\* the order of writing; o is the stream of bytes written, which holds
\* GET_TRACK and SET_ROW messages and may end inside a message
RECURSIVE RequestedNames(_)
RequestedNames(o) ==
    IF Len(o) < 5 THEN <<>>
    ELSE IF o[1] = 2
         THEN IF Len(o) < 5 + read_u32(o, 1) THEN <<>>
              ELSE <<Take(Drop(o, 5), read_u32(o, 1))>> \o
                   RequestedNames(Drop(o, 5 + read_u32(o, 1)))
         ELSE RequestedNames(Drop(o, 5))

\* C14: whatever get_track_mut calls were made, failed writes included, and
\* whatever edits arrived, the track at index i is the one named in the i-th
\* GET_TRACK message written whole to the connection; no track is removed or
\* moved.
C14_RegistryMatchesRequests ==
    /\ []([i \in 1..Len(tracks) |-> tracks[i].name] = RequestedNames(out))
    /\ [][/\ Len(tracks') >= Len(tracks)
          /\ \A i \in 1..Len(tracks) : tracks'[i].name = tracks[i].name]_vars

\* the write of a second request broke off after the first track had
\* received a key
C14_Witness ==
    /\ ret.op = "get_track_mut"
    /\ ret.kind = "Err"
    /\ Len(tracks) = 1
    /\ tracks[1].keys # <<>>
    /\ Len(out) \in 7..11
    /\ out[7] = 2

\* the operations of the client other than poll_events
OutboundOps == {"set_row", "get_track_mut", "get_track", "save_tracks"}

\* C16: set_row, get_track_mut, get_track and save_tracks never change the
\* decoder state or cmd, also in the middle of a message; set_row, get_track
\* and save_tracks also leave the tracks and their keys as they are.
C16_OutboundFrame ==
    [][(/\ pc = "idle"
        /\ pc' = "idle"
        /\ UNCHANGED <<rx, wire, sent>>
        /\ ret'.op \in OutboundOps)
       => /\ UNCHANGED <<state, cmd>>
          /\ ret'.op # "get_track_mut" => UNCHANGED tracks
          /\ \A i \in 1..Len(tracks) : tracks'[i] = tracks[i]]_vars

\* set_row was called with a message partly received and a track in the
\* registry
C16_Witness ==
    /\ ret.op = "set_row"
    /\ ret.kind = "Ok"
    /\ state.tag = "Incomplete"
    /\ Len(cmd) > 1
    /\ tracks # <<>>
    /\ out[Len(out)] = 1

\* keys without its p-th key
WithoutKey(keys, p) ==
    [i \in 1..(Len(keys) - 1) |-> IF i < p THEN keys[i] ELSE keys[i + 1]]

\* C17: delete_key(row) removes the key at that row when there is one and
\* leaves every other key, in the same order; when no key has the row the
\* track is unchanged.
C17_DeleteKeyFrame ==
    [][ret'.op = "delete_key"
       => /\ track'.name = track.name
          /\ IF \E p \in 1..Len(track.keys) : track.keys[p].row = ret'.arg
             THEN \E p \in 1..Len(track.keys) :
                     /\ track.keys[p].row = ret'.arg
                     /\ track'.keys = WithoutKey(track.keys, p)
             ELSE track' = track]_vars

\* the middle one of three keys was deleted
C17_Witness ==
    /\ ret.op = "delete_key"
    /\ ret.len_before = 3
    /\ Len(track.keys) = 2
    /\ track.keys[1].row < ret.arg
    /\ ret.arg < track.keys[2].row

\* a row without a key was deleted from a track with keys
C17_WitnessAbsent ==
    /\ ret.op = "delete_key"
    /\ ret.len_before = 2
    /\ Len(track.keys) = 2

\* C20: get_value at the row of a key k returns k.value, for the first, the
\* last and the interior keys and whatever their interpolation; for an
\* interior key the segment used is the one that starts at k, with t = 0.
C20_ValueAtKeyRow ==
    ret.op = "get_value" =>
       \A p \in 1..Len(track.keys) :
          ret.arg = RInt(track.keys[p].row) =>
             /\ ret.val = track.keys[p].value
             /\ (1 < p /\ p < Len(track.keys)) =>
                   /\ get_value_path(track.keys, ret.arg) = "segment"
                   /\ get_value_pos(track.keys, ret.arg) = p
                   /\ get_value_t(track.keys, ret.arg) = RInt(0)

=============================================================================
